---- MODULE Spec2Model ----
(***************************************************************************)
(* Model of the flight graph of src/src/main.rs: struct Graph with its     *)
(* adjacency_list, add_edge, bfs_shortest_paths, connected_components,     *)
(* largest_component and harmonic_centrality.                               *)
(*                                                                         *)
(* The loops of the traversals are modelled one iteration per step, so     *)
(* that their termination is a property of the model.  A HashMap gives no  *)
(* iteration order: every `for node in self.adjacency_list.keys()` draws   *)
(* its next key from the keys not yet handed out, in any order.            *)
(*                                                                         *)
(* Node names are opaque to the code (hashed and compared only), so a      *)
(* graph is built up to renaming: a name the graph has not seen yet is     *)
(* always the next one of NodeSeq.  The traversals ignore the weights      *)
(* (`for (neighbor, _) in neighbors`); SpecBuild and Spec build graphs     *)
(* with every weight, the other specifications build unit-weight graphs,   *)
(* as the tests of connected_components and harmonic_centrality do.        *)
(* Weights are opaque too: a new weight is the next unused one.            *)
(***************************************************************************)
EXTENDS Integers, Sequences, FiniteSets, Bags, TLC

(* ------------------------------ bounds ------------------------------- *)

\* add_edge is called at most MaxCalls times in a behaviour.
MaxCalls == 3
\* edge weights are drawn from 1..MaxWeight.
MaxWeight == 2

\* The node names, in the order in which a graph first uses them: the code
\* only hashes and compares names, so a graph is built up to renaming.
NodeSeq == <<"A", "B", "C", "D", "E", "F">>
Node == {NodeSeq[i] : i \in 1..Len(NodeSeq)}
Weight == 1..MaxWeight

\* `.take(5)` of harmonic_centrality.
TopK == 5
\* 1.0 of `1.0 / d as f64` as a fixed-point number: ScoreUnit \div d is exact
\* for every d in 1..6, and no path of the graphs built here is longer.
ScoreUnit == 60

VARIABLES
    adjacency_list,     \* Graph.adjacency_list: node -> sequence of <<neighbor, weight>>
    calls,              \* history: the bag of add_edge calls made, <<from, to, weight>>
    op,                 \* the method being executed, "idle" between calls
    pc,                 \* the position inside it
    start,              \* bfs_shortest_paths: its argument
    distances,          \* bfs_shortest_paths: distances
    queue,              \* bfs_shortest_paths: queue, front first
    visited,            \* bfs_shortest_paths / connected_components: visited
    expanded,           \* history: node -> how often its neighbours were scanned
    keys_left,          \* the keys the running keys() iterator has not yet yielded
    components,         \* connected_components: components
    component,          \* connected_components: component
    stack,              \* connected_components: stack, top last
    centrality_scores,  \* harmonic_centrality: centrality_scores
    ret                 \* the value returned by largest_component / harmonic_centrality

vars == <<adjacency_list, calls, op, pc, start, distances, queue, visited, expanded,
          keys_left, components, component, stack, centrality_scores, ret>>

locals == <<start, distances, queue, visited, expanded, keys_left, components,
            component, stack, centrality_scores, ret>>

(* ----------------------------- helpers -------------------------------- *)

EmptyMap == [n \in {} |-> 0]
NoCount == [n \in Node |-> 0]

Keys == DOMAIN adjacency_list

\* Neighbors with only the first entry of the list.
NeighborsFirst(adj, n) ==
    IF n \in DOMAIN adj /\ adj[n] # <<>> THEN <<Head(adj[n])>> ELSE <<>>

\* self.adjacency_list.get(&current): the neighbours, none for an unknown node.
Neighbors(adj, n) == IF n \in DOMAIN adj THEN adj[n] ELSE <<>>

\* EntryPush replacing the list instead of appending to it.
EntryInsert(adj, k, e) ==
    LET a == IF k \in DOMAIN adj THEN adj ELSE adj @@ (k :> <<>>)
    IN  [a EXCEPT ![k] = <<e>>]

\* .entry(k).or_insert_with(Vec::new).push(e)
EntryPush(adj, k, e) ==
    LET a == IF k \in DOMAIN adj THEN adj ELSE adj @@ (k :> <<>>)
    IN  [a EXCEPT ![k] = Append(@, e)]

\* Graph::add_edge as a function of the map.
AddEdgeTo(adj, from, to, weight) ==
    EntryPush(EntryPush(adj, from, <<to, weight>>), to, <<from, weight>>)

\* HashMap::insert(k, v): the entry is set, a present one overwritten.
MapInsert(m, k, v) == [n \in DOMAIN m \cup {k} |-> IF n = k THEN v ELSE m[n]]

\* NextDistance adding the weight of the edge.
NextDistanceWeighted(distance, weight) == distance + weight

\* `distance + 1`: the distance pushed with a neighbour, whatever the weight.
NextDistance(distance, weight) == distance + 1

RECURSIVE Pushes(_, _)
\* queue.push_back((neighbor.clone(), distance + 1)) for each entry of s.
Pushes(s, distance) ==
    IF s = <<>> THEN <<>>
    ELSE <<<<Head(s)[1], NextDistance(distance, Head(s)[2])>>>> \o Pushes(Tail(s), distance)

\* Unvisited stopping after the first unvisited neighbour.
UnvisitedFirst(s, vis) ==
    LET u == SelectSeq(s, LAMBDA e : e[1] \notin vis)
    IN  IF u = <<>> THEN <<>> ELSE <<Head(u)>>

\* `if !visited.contains(neighbor)`: the entries of s that get pushed.
Unvisited(s, vis) == SelectSeq(s, LAMBDA e : e[1] \notin vis)

RECURSIVE Names(_)
\* stack.push(neighbor.clone()) for each entry of s.
Names(s) == IF s = <<>> THEN <<>> ELSE <<Head(s)[1]>> \o Names(Tail(s))

(* --------------------------- Graph::new ------------------------------- *)

Init ==
    /\ adjacency_list = EmptyMap
    /\ calls = EmptyBag
    /\ op = "idle"
    /\ pc = "idle"
    /\ start = "A"
    /\ distances = EmptyMap
    /\ queue = <<>>
    /\ visited = {}
    /\ expanded = NoCount
    /\ keys_left = {}
    /\ components = <<>>
    /\ component = {}
    /\ stack = <<>>
    /\ centrality_scores = <<>>
    /\ ret = {}

(* -------------------------- Graph::add_edge --------------------------- *)

\* The next unused name after the names in known.
NextName(known) == NodeSeq[Cardinality(known) + 1]

\* A name not yet in the graph is the next unused one.
InOrder(known, n) ==
    \/ n \in known
    \/ Cardinality(known) < Len(NodeSeq) /\ n = NextName(known)

\* The weights are opaque to the code as well (stored, never read back by
\* a traversal): a weight no edge has yet is the next unused one.
WeightInOrder(used, weight) ==
    weight \in Weight /\ weight <= Cardinality(used) + 1

UsedWeights == {c[3] : c \in BagToSet(calls)}

add_edge(from, to, weight) ==
    /\ op = "idle"
    /\ BagCardinality(calls) < MaxCalls
    /\ InOrder(Keys, from)
    /\ InOrder(Keys \cup {from}, to)
    /\ WeightInOrder(UsedWeights, weight)
    /\ adjacency_list' = AddEdgeTo(adjacency_list, from, to, weight)
    /\ calls' = calls (+) SetToBag({<<from, to, weight>>})
    /\ UNCHANGED <<op, pc>>
    /\ UNCHANGED locals

(* --------------------- Graph::bfs_shortest_paths ---------------------- *)

\* BfsIter without `if !visited.insert(current.clone()) { continue; }`.
BfsIterNoSkip(adj, b) ==
    LET current == Head(b.queue)[1]
        distance == Head(b.queue)[2]
        vis == b.visited \cup {current}
    IN  [queue |-> Tail(b.queue) \o Pushes(Unvisited(Neighbors(adj, current), vis), distance),
         visited |-> vis,
         distances |-> MapInsert(b.distances, current, distance),
         expanded |-> [b.expanded EXCEPT ![current] = @ + 1]]

\* One iteration of `while let Some((current, distance)) = queue.pop_front()`
\* on the traversal state b = [queue, visited, distances, expanded].
BfsIter(adj, b) ==
    LET current == Head(b.queue)[1]
        distance == Head(b.queue)[2]
        rest == Tail(b.queue)
    IN  IF current \in b.visited
        THEN [b EXCEPT !.queue = rest]
        ELSE LET vis == b.visited \cup {current}
             IN  [queue |-> rest \o Pushes(Unvisited(Neighbors(adj, current), vis), distance),
                  visited |-> vis,
                  distances |-> MapInsert(b.distances, current, distance),
                  expanded |-> [b.expanded EXCEPT ![current] = @ + 1]]

BfsStart(s) ==
    [queue |-> <<<<s, 0>>>>, visited |-> {}, distances |-> EmptyMap, expanded |-> NoCount]

RECURSIVE BfsRun(_, _)
BfsRun(adj, b) == IF b.queue = <<>> THEN b.distances ELSE BfsRun(adj, BfsIter(adj, b))

\* Graph::bfs_shortest_paths as a function, as harmonic_centrality calls it.
bfs_shortest_paths(adj, s) == BfsRun(adj, BfsStart(s))

bfs_call(s) ==
    /\ op = "idle"
    /\ InOrder(Keys, s)
    /\ op' = "bfs_shortest_paths"
    /\ pc' = "while"
    /\ start' = s
    /\ queue' = BfsStart(s).queue
    /\ visited' = {}
    /\ distances' = EmptyMap
    /\ expanded' = NoCount
    /\ UNCHANGED <<adjacency_list, calls, keys_left, components, component, stack,
                   centrality_scores, ret>>

bfs_step ==
    /\ op = "bfs_shortest_paths"
    /\ pc = "while"
    /\ queue # <<>>
    /\ LET b == BfsIter(adjacency_list, [queue |-> queue, visited |-> visited,
                                         distances |-> distances, expanded |-> expanded])
       IN  /\ queue' = b.queue
           /\ visited' = b.visited
           /\ distances' = b.distances
           /\ expanded' = b.expanded
    /\ UNCHANGED <<adjacency_list, calls, op, pc, start, keys_left, components, component,
                   stack, centrality_scores, ret>>

bfs_return ==
    /\ op = "bfs_shortest_paths"
    /\ pc = "while"
    /\ queue = <<>>
    /\ pc' = "done"
    /\ UNCHANGED <<adjacency_list, calls, op, start, distances, queue, visited, expanded,
                   keys_left, components, component, stack, centrality_scores, ret>>

(* -------------------- Graph::connected_components --------------------- *)

cc_begin(name) ==
    /\ op = "idle"
    /\ op' = name
    /\ pc' = "for"
    /\ visited' = {}
    /\ components' = <<>>
    /\ keys_left' = Keys
    /\ expanded' = NoCount
    /\ UNCHANGED <<adjacency_list, calls, start, distances, queue, component, stack,
                   centrality_scores, ret>>

cc_call == cc_begin("connected_components")

InCc == op \in {"connected_components", "largest_component"}

\* IsSeed taking every key as a seed.
IsSeedAlways(node, vis) == TRUE

\* `if !visited.contains(node)`
IsSeed(node, vis) == node \notin vis

\* `for node in self.adjacency_list.keys()`: the next key, and the seed test.
cc_for ==
    /\ InCc
    /\ pc = "for"
    /\ \E node \in keys_left :
        /\ keys_left' = keys_left \ {node}
        /\ IF IsSeed(node, visited)
           THEN /\ component' = {}
                /\ stack' = <<node>>
                /\ pc' = "while"
           ELSE UNCHANGED <<component, stack, pc>>
    /\ UNCHANGED <<adjacency_list, calls, op, start, distances, queue, visited, expanded,
                   components, centrality_scores, ret>>

\* One iteration of `while let Some(current) = stack.pop()`.
cc_while ==
    /\ InCc
    /\ pc = "while"
    /\ stack # <<>>
    /\ LET current == stack[Len(stack)]
           rest == SubSeq(stack, 1, Len(stack) - 1)
       IN  IF current \notin visited
           THEN LET vis == visited \cup {current}
                IN  /\ visited' = vis
                    /\ component' = component \cup {current}
                    /\ stack' = rest \o Names(Unvisited(Neighbors(adjacency_list, current), vis))
                    /\ expanded' = [expanded EXCEPT ![current] = @ + 1]
           ELSE /\ stack' = rest
                /\ UNCHANGED <<visited, component, expanded>>
    /\ UNCHANGED <<adjacency_list, calls, op, pc, start, distances, queue, keys_left,
                   components, centrality_scores, ret>>

\* components.push(component)
cc_push ==
    /\ InCc
    /\ pc = "while"
    /\ stack = <<>>
    /\ components' = Append(components, component)
    /\ pc' = "for"
    /\ UNCHANGED <<adjacency_list, calls, op, start, distances, queue, visited, expanded,
                   keys_left, component, stack, centrality_scores, ret>>

cc_return ==
    /\ op = "connected_components"
    /\ pc = "for"
    /\ keys_left = {}
    /\ pc' = "done"
    /\ UNCHANGED <<adjacency_list, calls, op, start, distances, queue, visited, expanded,
                   keys_left, components, component, stack, centrality_scores, ret>>

(* ---------------------- Graph::largest_component ---------------------- *)

\* MaxByKeyIndex as min_by_key would have it.
MinByKeyIndex(cs) ==
    IF cs = <<>> THEN 0
    ELSE CHOOSE i \in 1..Len(cs) :
            /\ \A j \in 1..Len(cs) : Cardinality(cs[j]) >= Cardinality(cs[i])
            /\ \A j \in 1..(i - 1) : Cardinality(cs[j]) > Cardinality(cs[i])

\* MaxByKeyIndex with the first of several maximal elements winning.
FirstMaxIndex(cs) ==
    IF cs = <<>> THEN 0
    ELSE CHOOSE i \in 1..Len(cs) :
            /\ \A j \in 1..Len(cs) : Cardinality(cs[j]) <= Cardinality(cs[i])
            /\ \A j \in 1..(i - 1) : Cardinality(cs[j]) < Cardinality(cs[i])

\* Iterator::max_by_key(|component| component.len()): the index of the
\* element returned, 0 for None.  Of several maximal elements the last wins.
MaxByKeyIndex(cs) ==
    IF cs = <<>> THEN 0
    ELSE CHOOSE i \in 1..Len(cs) :
            /\ \A j \in 1..Len(cs) : Cardinality(cs[j]) <= Cardinality(cs[i])
            /\ \A j \in (i + 1)..Len(cs) : Cardinality(cs[j]) < Cardinality(cs[i])

\* .max_by_key(..).unwrap_or_default()
MaxByKeyOrDefault(cs) == IF MaxByKeyIndex(cs) = 0 THEN {} ELSE cs[MaxByKeyIndex(cs)]

lc_call == cc_begin("largest_component")

lc_return ==
    /\ op = "largest_component"
    /\ pc = "for"
    /\ keys_left = {}
    /\ ret' = MaxByKeyOrDefault(components)
    /\ pc' = "done"
    /\ UNCHANGED <<adjacency_list, calls, op, start, distances, queue, visited, expanded,
                   keys_left, components, component, stack, centrality_scores>>

(* --------------------- Graph::harmonic_centrality --------------------- *)

RECURSIVE SumOver(_, _)
\* distances.values().map(|&d| if d > 0 { 1.0 / d } else { 0.0 }).sum()
SumOver(dist, nodes) ==
    IF nodes = {} THEN 0
    ELSE LET n == CHOOSE x \in nodes : TRUE
         IN  (IF dist[n] > 0 THEN ScoreUnit \div dist[n] ELSE 0) + SumOver(dist, nodes \ {n})

HarmonicSum(dist) == SumOver(dist, DOMAIN dist)

RECURSIVE InsertDesc(_, _)
\* e placed behind every entry whose score is not smaller.
InsertDesc(sorted, e) ==
    IF sorted = <<>> THEN <<e>>
    ELSE IF Head(sorted)[2] >= e[2] THEN <<Head(sorted)>> \o InsertDesc(Tail(sorted), e)
    ELSE <<e>> \o sorted

RECURSIVE SortDesc(_)
\* centrality_scores.sort_by(|a, b| b.1.partial_cmp(&a.1).unwrap()): a stable
\* sort, descending by score.
SortDesc(s) ==
    IF s = <<>> THEN <<>>
    ELSE InsertDesc(SortDesc(SubSeq(s, 1, Len(s) - 1)), s[Len(s)])

\* Take stopping one entry early.
TakeShort(s, n) == SubSeq(s, 1, IF Len(s) < n - 1 THEN Len(s) ELSE n - 1)

\* .into_iter().take(n).collect()
Take(s, n) == SubSeq(s, 1, IF Len(s) < n THEN Len(s) ELSE n)

hc_call ==
    /\ op = "idle"
    /\ op' = "harmonic_centrality"
    /\ pc' = "for"
    /\ centrality_scores' = <<>>
    /\ keys_left' = Keys
    /\ UNCHANGED <<adjacency_list, calls, start, distances, queue, visited, expanded,
                   components, component, stack, ret>>

\* One iteration of `for node in self.adjacency_list.keys()`.
hc_for ==
    /\ op = "harmonic_centrality"
    /\ pc = "for"
    /\ \E node \in keys_left :
        /\ keys_left' = keys_left \ {node}
        /\ centrality_scores' =
              Append(centrality_scores,
                     <<node, HarmonicSum(bfs_shortest_paths(adjacency_list, node))>>)
    /\ UNCHANGED <<adjacency_list, calls, op, pc, start, distances, queue, visited, expanded,
                   components, component, stack, ret>>

hc_return ==
    /\ op = "harmonic_centrality"
    /\ pc = "for"
    /\ keys_left = {}
    /\ ret' = Take(SortDesc(centrality_scores), TopK)
    /\ pc' = "done"
    /\ UNCHANGED <<adjacency_list, calls, op, start, distances, queue, visited, expanded,
                   keys_left, components, component, stack, centrality_scores>>

(* ---------------------------------------------------------------------- *)

\* The caller drops the result; the graph is ready for the next call.
drop ==
    /\ pc = "done"
    /\ op' = "idle"
    /\ pc' = "idle"
    /\ start' = "A"
    /\ distances' = EmptyMap
    /\ queue' = <<>>
    /\ visited' = {}
    /\ expanded' = NoCount
    /\ keys_left' = {}
    /\ components' = <<>>
    /\ component' = {}
    /\ stack' = <<>>
    /\ centrality_scores' = <<>>
    /\ ret' = {}
    /\ UNCHANGED <<adjacency_list, calls>>

Run ==
    \/ bfs_step
    \/ bfs_return
    \/ cc_for
    \/ cc_while
    \/ cc_push
    \/ cc_return

\* Build alone, every weight.
Build == \E from \in Node, to \in Node, weight \in Weight : add_edge(from, to, weight)

SpecBuild == Init /\ [][Build]_vars

\* Build and bfs_shortest_paths, every weight.
Next ==
    \/ \E from \in Node, to \in Node, weight \in Weight : add_edge(from, to, weight)
    \/ \E s \in Node : bfs_call(s)
    \/ bfs_step
    \/ bfs_return
    \/ drop

Spec == Init /\ [][Next]_vars

\* Build, connected_components and largest_component.
NextCC ==
    \/ \E from \in Node, to \in Node : add_edge(from, to, 1)
    \/ cc_call
    \/ cc_for
    \/ cc_while
    \/ cc_push
    \/ cc_return
    \/ lc_call
    \/ lc_return
    \/ drop

SpecCC == Init /\ [][NextCC]_vars

\* Build and harmonic_centrality.
NextHC ==
    \/ \E from \in Node, to \in Node : add_edge(from, to, 1)
    \/ hc_call
    \/ hc_for
    \/ hc_return
    \/ drop

SpecHC == Init /\ [][NextHC]_vars

\* Build and both traversals; a traversal that was called runs on (the
\* program is single-threaded and synchronous: nothing suspends a loop).
NextT ==
    \/ \E from \in Node, to \in Node : add_edge(from, to, 1)
    \/ \E s \in Node : bfs_call(s)
    \/ cc_call
    \/ Run
    \/ drop

FairSpec == Init /\ [][NextT]_vars /\ WF_vars(Run)

(* ====================================================================== *)
(* What the graph is, independently of the traversals.                    *)
(* ====================================================================== *)

\* The adjacency entries of u, none for a name that is no key.
Entries(adj, u) == IF u \in DOMAIN adj THEN adj[u] ELSE <<>>

\* The nodes some adjacency entry of u names.
Adjacent(adj, u) == {Entries(adj, u)[i][1] : i \in 1..Len(Entries(adj, u))}

RECURSIVE Ball(_, _, _)
\* The nodes a path of at most k adjacency entries joins to s.
Ball(adj, s, k) ==
    IF k = 0 THEN {s}
    ELSE LET b == Ball(adj, s, k - 1)
         IN  b \cup UNION {Adjacent(adj, u) : u \in b}

\* Ball(adj, s, k) for every k: a path never needs more entries than there
\* are names.
Balls(adj, s) == [k \in 0..Len(NodeSeq) |-> Ball(adj, s, k)]

\* The nodes some path joins to s, from the balls around s.
ReachableIn(balls) == balls[Len(NodeSeq)]

Reachable(adj, s) == ReachableIn(Balls(adj, s))

\* The minimum number of edges on a path from s to a reachable t, from the
\* balls around s: t is in the ball of that radius and in no smaller one.
MinHops(balls, t) ==
    CHOOSE k \in 0..Len(NodeSeq) :
        /\ t \in balls[k]
        /\ \A j \in 0..(k - 1) : t \notin balls[j]

\* How often e occurs in the sequence s.
Occurrences(s, e) == Cardinality({i \in 1..Len(s) : s[i] = e})

RECURSIVE TotalLen(_, _)
TotalLen(adj, nodes) ==
    IF nodes = {} THEN 0
    ELSE LET n == CHOOSE x \in nodes : TRUE
         IN  Len(adj[n]) + TotalLen(adj, nodes \ {n})

Min(a, b) == IF a < b THEN a ELSE b

BfsDone == op = "bfs_shortest_paths" /\ pc = "done"
CcDone == op = "connected_components" /\ pc = "done"
LcDone == op = "largest_component" /\ pc = "done"
HcDone == op = "harmonic_centrality" /\ pc = "done"

\* Some edge of the graph has a weight other than 1.
SomeHeavyEdge == \E c \in BagToSet(calls) : c[3] > 1

(* ====================================================================== *)
(* C1                                                                     *)
(* ====================================================================== *)

\* C1: bfs_shortest_paths(start) maps start to 0 and every node reachable
\* from start to the minimum number of edges on a path from start to it,
\* whatever the weights: every distance recorded during the traversal is
\* already that minimum (so it is never changed afterwards), and at the
\* return every reachable node has one.
C1_BfsMinHops ==
    (op = "bfs_shortest_paths") =>
        LET balls == Balls(adjacency_list, start)
        IN  /\ \A n \in DOMAIN distances :
                  /\ n \in ReachableIn(balls)
                  /\ distances[n] = MinHops(balls, n)
            /\ pc = "done" =>
                  /\ start \in DOMAIN distances /\ distances[start] = 0
                  /\ \A n \in ReachableIn(balls) : n \in DOMAIN distances

\* A finished traversal that went two edges deep over an edge heavier than 1.
C1_Witness ==
    /\ BfsDone
    /\ SomeHeavyEdge
    /\ \E n \in DOMAIN distances : distances[n] = 2

(* ====================================================================== *)
(* C2                                                                     *)
(* ====================================================================== *)

\* A distance no path has: more edges than there are names.
IsUnreachableValue(d) == d > Len(NodeSeq)

\* C2 as stated, for a start that is a node of the graph: the returned map
\* has an entry for every key of adjacency_list, and the keys not reachable
\* from start map to a value larger than any finite distance.
C2_CoversEveryNode ==
    (BfsDone /\ start \in Keys) =>
        LET reach == Reachable(adjacency_list, start)
        IN  \A n \in Keys :
                /\ n \in DOMAIN distances
                /\ n \notin reach => IsUnreachableValue(distances[n])

\* C2 (amended): the returned map has an entry exactly for start and the
\* nodes reachable from start, each a finite distance; a node that cannot
\* be reached has no entry.
C2_CoversReachableOnly ==
    BfsDone =>
        /\ DOMAIN distances = Reachable(adjacency_list, start)
        /\ \A n \in DOMAIN distances : ~IsUnreachableValue(distances[n])

\* A finished traversal of a graph with a key that start does not reach.
C2_Witness ==
    /\ BfsDone
    /\ start \in Keys
    /\ Keys \ Reachable(adjacency_list, start) # {}
    /\ Cardinality(DOMAIN distances) > 1

(* ====================================================================== *)
(* C3                                                                     *)
(* ====================================================================== *)

\* C3: the sets returned by connected_components partition the keys of
\* adjacency_list: their union is the key set, they are pairwise disjoint
\* and none is empty.
C3_Partition ==
    CcDone =>
        /\ UNION {components[i] : i \in 1..Len(components)} = Keys
        /\ \A i, j \in 1..Len(components) :
              i # j => components[i] \cap components[j] = {}
        /\ \A i \in 1..Len(components) : components[i] # {}

\* A finished run that returned several sets, one of several nodes.
C3_Witness ==
    /\ CcDone
    /\ Len(components) >= 2
    /\ \E i \in 1..Len(components) : Cardinality(components[i]) >= 2

(* ====================================================================== *)
(* C4                                                                     *)
(* ====================================================================== *)

\* C4 as stated: on every graph, the empty one included, the set returned
\* by largest_component is one of the sets connected_components returned
\* and none of those has more nodes.
C4_LargestIsMember ==
    LcDone =>
        /\ \E i \in 1..Len(components) : ret = components[i]
        /\ \A i \in 1..Len(components) : Cardinality(components[i]) <= Cardinality(ret)

\* C4 (amended): on every graph with at least one node the set returned by
\* largest_component is one of the sets connected_components returned and
\* none of those has more nodes; on the graph with zero nodes it is the
\* empty set, which connected_components does not return.
C4_LargestIsMemberNonEmpty ==
    LcDone =>
        /\ Keys # {} =>
              /\ \E i \in 1..Len(components) : ret = components[i]
              /\ \A i \in 1..Len(components) :
                    Cardinality(components[i]) <= Cardinality(ret)
        /\ Keys = {} => ret = {} /\ components = <<>>

\* largest_component returned on a graph whose components differ in size,
\* the largest not being the last one found.
C4_Witness ==
    /\ LcDone
    /\ Len(components) >= 2
    /\ Cardinality(components[Len(components)]) < Cardinality(ret)

(* ====================================================================== *)
(* C5                                                                     *)
(* ====================================================================== *)

\* The indices of the components of maximal size.
Largest(cs) ==
    {i \in 1..Len(cs) : \A j \in 1..Len(cs) : Cardinality(cs[j]) <= Cardinality(cs[i])}

Tie == Cardinality(Largest(components)) >= 2

\* C5 as stated: when several components share the maximum node count,
\* largest_component returns the first of them in the sequence of
\* connected_components.
C5_TieFirst ==
    (LcDone /\ Tie) =>
        ret = components[CHOOSE i \in Largest(components) :
                            \A j \in Largest(components) : i <= j]

\* C5 (amended): when several components share the maximum node count,
\* largest_component returns the last of them in the sequence of
\* connected_components.
C5_TieLast ==
    (LcDone /\ Tie) =>
        ret = components[CHOOSE i \in Largest(components) :
                            \A j \in Largest(components) : i >= j]

\* largest_component returned on a graph with a tie, a smaller component
\* having been found after the tied ones.
C5_Witness ==
    /\ LcDone
    /\ Tie
    /\ Len(components) \notin Largest(components)

(* ====================================================================== *)
(* C6                                                                     *)
(* ====================================================================== *)

\* C6: for all u, v, w the number of <<v, w>> entries in u's list is the
\* number of calls add_edge(u, v, w) plus the number of calls
\* add_edge(v, u, w); the keys are the endpoints of the calls; the list
\* lengths sum to twice the number of calls.
C6_MirroredMultigraph ==
    /\ \A u \in Node, v \in Node, w \in Weight :
          Occurrences(Entries(adjacency_list, u), <<v, w>>)
              = CopiesIn(<<u, v, w>>, calls) + CopiesIn(<<v, u, w>>, calls)
    /\ Keys = {c[1] : c \in BagToSet(calls)} \cup {c[2] : c \in BagToSet(calls)}
    /\ TotalLen(adjacency_list, Keys) = 2 * BagCardinality(calls)

\* A graph built with a repeated call, the same pair with another weight
\* or direction, or a self-loop among its calls.
C6_Witness ==
    /\ BagCardinality(calls) = MaxCalls
    /\ \E c \in BagToSet(calls) : CopiesIn(c, calls) >= 2
    /\ \E c \in BagToSet(calls) : c[1] = c[2]

(* ====================================================================== *)
(* C7                                                                     *)
(* ====================================================================== *)

RetNodes == {ret[i][1] : i \in 1..Len(ret)}

PathGraph ==
    AddEdgeTo(AddEdgeTo(AddEdgeTo(EmptyMap, "A", "B", 1), "B", "C", 1), "C", "D", 1)

\* C8: on the path graph A-B, B-C, C-D the first entry returned by
\* harmonic_centrality is node B with a score above 0, in whatever order
\* the node map is iterated.
C8_PathGraphFirstIsB ==
    (HcDone /\ adjacency_list = PathGraph) =>
        /\ ret[1][1] = "B"
        /\ ret[1][2] > 0

(* ====================================================================== *)
(* C9                                                                     *)
(* ====================================================================== *)

\* C9: two keys are in the same returned set if and only if a path of
\* adjacency entries joins them, and no adjacency entry links nodes of two
\* different returned sets.
C9_MaximalConnected ==
    CcDone =>
        /\ \A u \in Keys :
              LET reach == Reachable(adjacency_list, u)
              IN  \A v \in Keys :
                     (\E i \in 1..Len(components) :
                         u \in components[i] /\ v \in components[i]) <=> v \in reach
        /\ \A i \in 1..Len(components) :
              \A u \in components[i] : Adjacent(adjacency_list, u) \subseteq components[i]

\* A finished run on a graph with a node of two neighbours and a second
\* component.
C9_Witness ==
    /\ CcDone
    /\ Len(components) >= 2
    /\ \E u \in Keys : Cardinality(Adjacent(adjacency_list, u) \ {u}) >= 2

(* ====================================================================== *)
(* C10                                                                    *)
(* ====================================================================== *)

InBfsLoop == op = "bfs_shortest_paths" /\ pc = "while"
InCcLoop == op = "connected_components" /\ pc = "while"

\* A dequeued (popped) node that was visited before is skipped: nothing is
\* recorded, nothing is pushed.
SkipsVisited ==
    /\ (InBfsLoop /\ queue # <<>> /\ Head(queue)[1] \in visited) =>
          /\ queue' = Tail(queue)
          /\ UNCHANGED <<visited, distances, expanded>>
    /\ (InCcLoop /\ stack # <<>> /\ stack[Len(stack)] \in visited) =>
          /\ stack' = SubSeq(stack, 1, Len(stack) - 1)
          /\ UNCHANGED <<visited, component, expanded>>

\* C10: bfs_shortest_paths and connected_components terminate on every
\* graph: once called, the method returns with its queue (stack) empty;
\* the neighbours of a node are scanned at most once per call; a node
\* dequeued after it was visited is skipped.
C10_Terminates ==
    /\ [](\A n \in Node : expanded[n] <= 1)
    /\ [][SkipsVisited]_vars
    /\ (op = "bfs_shortest_paths") ~> (BfsDone /\ queue = <<>>)
    /\ (op = "connected_components") ~> (CcDone /\ stack = <<>> /\ keys_left = {})

\* A traversal about to dequeue a node it has already visited, in a graph
\* with a self-loop or a parallel edge.
C10_Witness ==
    /\ InBfsLoop
    /\ queue # <<>>
    /\ Head(queue)[1] \in visited
    /\ Len(queue) >= 2
    /\ \E u \in Keys : Len(adjacency_list[u]) > Cardinality(Adjacent(adjacency_list, u) \ {u})

====
